---- MODULE Spec2Model ----
(***************************************************************************)
(* A model of the SQL-backed lease of bobg/sqlutil (src/lease.go).         *)
(*                                                                         *)
(* Several processes ("actors") share one lease table.  Each public        *)
(* method of Lessor / Lease is one round trip (Renew, Release) or two      *)
(* (Acquire: sweep, then insert); every statement is executed atomically   *)
(* by the store, but the statements of different calls interleave freely.  *)
(* The time argument of a statement is time.Now() of the calling process,  *)
(* read when the call is made and compared by the store when the statement *)
(* executes, which may be later.  A Lease is a value (Name, Exp, Key) that  *)
(* may be ported to another process, so any actor may call Renew or        *)
(* Release on any handle an Acquire has returned.  A statement for which   *)
(* the store reports an error has had no effect on the table.              *)
(***************************************************************************)
EXTENDS Integers, Sequences, FiniteSets, TLC

(***************************************************************************)
(* Bounds of the model.                                                    *)
(***************************************************************************)
MaxTime == 1
MaxExp == 2
MaxCalls == 3
MaxSkew == 1

Actors == {"p1", "p2"}
\* Only the differences between the actors' clocks are observable, so one
\* actor's clock is taken as real time.
RefActor == "p1"
Names == {"job-1", "job-2"}
Exps == 0..MaxExp
Skews == 0..MaxSkew

(***************************************************************************)
(* Program constants.                                                      *)
(***************************************************************************)
KeySize == 16

(***************************************************************************)
(* Errors.  An error is a sequence of messages, outermost annotation       *)
(* first; the nil error is the empty sequence.                             *)
(***************************************************************************)
NilErr == << >>
StoreErr == <<"store error">>
UniqueErr == <<"unique constraint violation">>
RandErr == <<"rand error">>
RenewRefused == <<"could not renew">>

\* errors.Wrap: nil stays nil, anything else gets the annotation in front.
Wrap(err, msg) == IF err = NilErr THEN NilErr ELSE <<msg>> \o err

(***************************************************************************)
(* Key generation: 16 bytes from rand.Reader, hex-encoded.                 *)
(***************************************************************************)
HexDigits == <<"0", "1", "2", "3", "4", "5", "6", "7",
               "8", "9", "a", "b", "c", "d", "e", "f">>

\* The bytes rand.Reader delivers for one draw.  The draws are indexed by a
\* seed and distinct seeds give distinct byte strings; the n-th draw of a run
\* uses seed n, so that no two draws deliver the same 128 bits.
RandomBytes(seed) == [i \in 1..KeySize |-> (seed * 73 + i * 29) % 256]

\* hex.EncodeToString: two lower-case hex digits per byte, high nibble first.
EncodeToString(bytes) ==
  [i \in 1..(2 * Len(bytes)) |->
     IF i % 2 = 1
       THEN HexDigits[(bytes[(i + 1) \div 2] \div 16) + 1]
       ELSE HexDigits[(bytes[i \div 2] % 16) + 1]]

(***************************************************************************)
(* The lease table and the four statements the code sends to the store.    *)
(* A row is [name, exp, key]; the table is the set of its rows.            *)
(***************************************************************************)
Row(name, exp, key) == [name |-> name, exp |-> exp, key |-> key]

\* A faulty variant: a sweep with its comparison the wrong way round.
ExecSweepInverted(t, now) == {r \in t : ~(r.exp > now)}

\* A faulty variant: a sweep that also deletes the rows expiring exactly at $1.
ExecSweepInclusive(t, now) == {r \in t : ~(r.exp <= now)}

\* DELETE FROM leases WHERE exp < $1
ExecSweep(t, now) == {r \in t : ~(r.exp < now)}

\* A faulty variant: the insert on a table whose name column carries no unique index.
ExecInsertNoIndex(t, name, exp, key) ==
  [table |-> t \cup {Row(name, exp, key)}, err |-> NilErr]

\* A faulty variant: an insert that replaces the row of a name already present.
ExecInsertUpsert(t, name, exp, key) ==
  [table |-> {r \in t : r.name # name} \cup {Row(name, exp, key)}, err |-> NilErr]

\* INSERT INTO leases (name, exp, key) VALUES ($1, $2, $3), the name column
\* being uniquely indexed.
ExecInsert(t, name, exp, key) ==
  IF \E r \in t : r.name = name
    THEN [table |-> t, err |-> UniqueErr]
    ELSE [table |-> t \cup {Row(name, exp, key)}, err |-> NilErr]

\* A faulty variant: the update without its key condition.
ExecUpdateAnyKey(t, newExp, name, key, now) ==
  LET hit == {r \in t : r.name = name /\ r.exp > now}
  IN  [table |-> (t \ hit) \cup {[r EXCEPT !.exp = newExp] : r \in hit},
       aff |-> Cardinality(hit)]

\* A faulty variant: an update that inserts the row when it hits none.
ExecUpdateUpsert(t, newExp, name, key, now) ==
  LET hit == {r \in t : r.name = name /\ r.key = key /\ r.exp > now}
  IN  IF \A r \in t : r.name # name
        THEN [table |-> t \cup {Row(name, newExp, key)}, aff |-> 1]
        ELSE [table |-> (t \ hit) \cup {[r EXCEPT !.exp = newExp] : r \in hit},
              aff |-> Cardinality(hit)]

\* A faulty variant: an update that matches the row but does not write the
\* new expiration.
ExecUpdateKeepsExp(t, newExp, name, key, now) ==
  LET hit == {r \in t : r.name = name /\ r.key = key /\ r.exp > now}
  IN  [table |-> t, aff |-> Cardinality(hit)]

\* UPDATE leases SET exp = $1 WHERE name = $2 AND key = $3 AND exp > $4
ExecUpdate(t, newExp, name, key, now) ==
  LET hit == {r \in t : r.name = name /\ r.key = key /\ r.exp > now}
  IN  [table |-> (t \ hit) \cup {[r EXCEPT !.exp = newExp] : r \in hit},
       aff |-> Cardinality(hit)]

\* A faulty variant: a delete by name alone.
ExecDeleteByName(t, name, key) == {r \in t : r.name # name}

\* DELETE FROM leases WHERE name = $1 AND key = $2
ExecDelete(t, name, key) == {r \in t : ~(r.name = name /\ r.key = key)}

(***************************************************************************)
(* State.                                                                  *)
(***************************************************************************)
VARIABLES
  table,   \* the rows of the lease table
  clock,   \* real time
  skew,    \* skew[a]: how far actor a's clock is ahead of real time
  calls,   \* the number of calls made so far
  issued,  \* the number of keys rand.Reader has delivered so far
  leases,  \* the Lease values Acquire has returned (their Name, Exp, Key)
  pc,      \* pc[a]: where actor a is in its current call
  args,    \* args[a]: the arguments and locals of a's current call
  ret      \* ret[a]: what a's last call returned, until a's next call

vars == <<table, clock, skew, calls, issued, leases, pc, args, ret>>

\* A nil *Lease, and &Lease{Lessor: l, Name: name, Exp: exp, Key: keyHex}.
NilLease == [Name |-> "", Exp |-> 0, Key |-> << >>]
Lease(name, exp, key) == [Name |-> name, Exp |-> exp, Key |-> key]

NoArgs == [name |-> "", exp |-> 0, now |-> 0, key |-> << >>]
Args(name, exp, now, key) == [name |-> name, exp |-> exp, now |-> now, key |-> key]

\* The outcome of a call: the call, the error it returned, the handle it
\* returned (Acquire) or was made on (Renew, Release), and the time argument
\* it had passed to the store.
NoRet == [op |-> "none", err |-> NilErr, lease |-> NilLease, now |-> 0]
Ret(op, l, err, now) == [op |-> op, err |-> err, lease |-> l, now |-> now]

\* A faulty variant: a clock that reads one unit ahead of the time.
NowFast(a) == clock + skew[a] + 1

\* time.Now() in the process of actor a.
Now(a) == clock + skew[a]

Init ==
  /\ table = {}
  /\ clock = 0
  /\ skew \in {f \in [Actors -> Skews] : f[RefActor] = 0}
  /\ calls = 0
  /\ issued = 0
  /\ leases = {}
  /\ pc = [a \in Actors |-> "idle"]
  /\ args = [a \in Actors |-> NoArgs]
  /\ ret = [a \in Actors |-> NoRet]

\* Actor a returns err (and, from Acquire, the handle l) from its call op.
Return(a, op, l, err) ==
  /\ pc' = [pc EXCEPT ![a] = "idle"]
  /\ args' = [args EXCEPT ![a] = NoArgs]
  /\ ret' = [ret EXCEPT ![a] = Ret(op, l, err, args[a].now)]

(***************************************************************************)
(* Lessor.Acquire                                                          *)
(***************************************************************************)
\* Actor a, idle, makes a call and enters it at `to' with the locals `locals'.
Call(a, to, locals) ==
  /\ pc[a] = "idle"
  /\ calls < MaxCalls
  /\ calls' = calls + 1
  /\ pc' = [pc EXCEPT ![a] = to]
  /\ args' = [args EXCEPT ![a] = locals]
  /\ ret' = [ret EXCEPT ![a] = NoRet]

\* Acquire(ctx, name, exp) is called; time.Now() is evaluated for the sweep.
AcquireCall(a, name, exp) ==
  /\ Call(a, "acq_sweep", Args(name, exp, Now(a), << >>))
  /\ UNCHANGED <<table, clock, skew, issued, leases>>

\* A faulty variant: an Acquire that treats the sweep as best effort and goes
\* on to the insert when the sweep failed.
AcquireSweepBestEffort(a) ==
  /\ pc[a] = "acq_sweep"
  /\ \/ table' = ExecSweep(table, args[a].now)
     \/ UNCHANGED table
  /\ pc' = [pc EXCEPT ![a] = "acq_key"]
  /\ UNCHANGED <<clock, skew, calls, issued, leases, args, ret>>

\* The store executes the sweep, or reports an error and Acquire returns.
AcquireSweep(a) ==
  /\ pc[a] = "acq_sweep"
  /\ \/ /\ table' = ExecSweep(table, args[a].now)
        /\ pc' = [pc EXCEPT ![a] = "acq_key"]
        /\ UNCHANGED <<args, ret>>
     \/ /\ Return(a, "Acquire", NilLease, Wrap(StoreErr, "deleting stale leases"))
        /\ UNCHANGED table
  /\ UNCHANGED <<clock, skew, calls, issued, leases>>

\* rand.Reader.Read fills the key, or fails and Acquire returns.
AcquireKey(a) ==
  /\ pc[a] = "acq_key"
  /\ \/ /\ issued' = issued + 1
        /\ args' = [args EXCEPT ![a].key = EncodeToString(RandomBytes(issued + 1))]
        /\ pc' = [pc EXCEPT ![a] = "acq_insert"]
        /\ UNCHANGED ret
     \/ /\ Return(a, "Acquire", NilLease, Wrap(RandErr, "computing key"))
        /\ UNCHANGED issued
  /\ UNCHANGED <<table, clock, skew, calls, leases>>

\* A faulty variant: an Acquire that returns no handle when the insert failed.
AcquireResultNilOnError(name, exp, key, insErr) ==
  [lease |-> IF insErr = NilErr THEN Lease(name, exp, key) ELSE NilLease,
   err |-> Wrap(insErr, "inserting into database")]

\* What Acquire returns once the insert has been sent: the handle, and the
\* insert's error wrapped.
AcquireResult(name, exp, key, insErr) ==
  [lease |-> Lease(name, exp, key), err |-> Wrap(insErr, "inserting into database")]

\* The store executes the insert, or reports an error; Acquire returns.
AcquireInsert(a) ==
  /\ pc[a] = "acq_insert"
  /\ \E failed \in BOOLEAN :
       LET ins == IF failed THEN [table |-> table, err |-> StoreErr]
                  ELSE ExecInsert(table, args[a].name, args[a].exp, args[a].key)
           res == AcquireResult(args[a].name, args[a].exp, args[a].key, ins.err)
       IN  /\ table' = ins.table
           /\ leases' = IF res.lease = NilLease THEN leases ELSE leases \cup {res.lease}
           /\ Return(a, "Acquire", res.lease, res.err)
  /\ UNCHANGED <<clock, skew, calls, issued>>

(***************************************************************************)
(* Lease.Renew                                                             *)
(***************************************************************************)
\* l.Renew(ctx, exp) is called on a handle l; time.Now() is evaluated.
RenewCall(a, l, exp) ==
  /\ l \in leases
  /\ Call(a, "ren_update", Args(l.Name, exp, Now(a), l.Key))
  /\ UNCHANGED <<table, clock, skew, issued, leases>>

\* The handle a Renew or Release in progress was called on (keys identify
\* handles).
Receiver(a) == CHOOSE l \in leases : l.Name = args[a].name /\ l.Key = args[a].key

\* What Renew returns, given the outcome of the store call.
RenewResult(execErr, affErr, aff) ==
  IF execErr # NilErr THEN Wrap(execErr, "updating database")
  ELSE IF affErr # NilErr THEN Wrap(affErr, "counting affected rows")
  ELSE IF aff = 0 THEN RenewRefused
  ELSE NilErr

\* A faulty variant: a Renew that refuses, without asking the store, once the
\* expiration held in the handle has passed.
RenewUpdateByHandleExp(a) ==
  /\ pc[a] = "ren_update"
  /\ IF Receiver(a).Exp > args[a].now
       THEN \/ /\ UNCHANGED table
               /\ Return(a, "Renew", Receiver(a), RenewResult(StoreErr, NilErr, 0))
            \/ \E affErr \in {NilErr, StoreErr} :
                 LET res == ExecUpdate(table, args[a].exp, args[a].name, args[a].key, args[a].now)
                 IN  /\ table' = res.table
                     /\ Return(a, "Renew", Receiver(a), RenewResult(NilErr, affErr, res.aff))
       ELSE /\ UNCHANGED table
            /\ Return(a, "Renew", Receiver(a), RenewRefused)
  /\ UNCHANGED <<clock, skew, calls, issued, leases>>

\* A faulty variant: a Renew that, on success, writes the new expiration
\* into the handle.
RenewUpdateSetsExp(a) ==
  /\ pc[a] = "ren_update"
  /\ \/ /\ UNCHANGED <<table, leases>>
        /\ Return(a, "Renew", Receiver(a), RenewResult(StoreErr, NilErr, 0))
     \/ \E affErr \in {NilErr, StoreErr} :
          LET res == ExecUpdate(table, args[a].exp, args[a].name, args[a].key, args[a].now)
              err == RenewResult(NilErr, affErr, res.aff)
              l == IF err = NilErr THEN [Receiver(a) EXCEPT !.Exp = args[a].exp]
                   ELSE Receiver(a)
          IN  /\ table' = res.table
              /\ leases' = (leases \ {Receiver(a)}) \cup {l}
              /\ Return(a, "Renew", l, err)
  /\ UNCHANGED <<clock, skew, calls, issued>>

\* The store executes the update (or reports an error), and the result's
\* RowsAffected is read (or fails); Renew returns.
RenewUpdate(a) ==
  /\ pc[a] = "ren_update"
  /\ \/ /\ UNCHANGED table
        /\ Return(a, "Renew", Receiver(a), RenewResult(StoreErr, NilErr, 0))
     \/ \E affErr \in {NilErr, StoreErr} :
          LET res == ExecUpdate(table, args[a].exp, args[a].name, args[a].key, args[a].now)
          IN  /\ table' = res.table
              /\ Return(a, "Renew", Receiver(a), RenewResult(NilErr, affErr, res.aff))
  /\ UNCHANGED <<clock, skew, calls, issued, leases>>

(***************************************************************************)
(* Lease.Release                                                           *)
(***************************************************************************)
\* A faulty variant: a Release that reports a delete of no row as an error.
ReleaseResultChecked(execErr, deleted) ==
  IF execErr = NilErr /\ deleted = 0 THEN <<"could not release">>
  ELSE Wrap(execErr, "deleting from database")

\* What Release returns, given the outcome of the store call; the result
\* (and with it the number of rows deleted) is discarded.
ReleaseResult(execErr, deleted) == Wrap(execErr, "deleting from database")

\* l.Release(ctx) is called on a handle l.
ReleaseCall(a, l) ==
  /\ l \in leases
  /\ Call(a, "rel_delete", Args(l.Name, 0, 0, l.Key))
  /\ UNCHANGED <<table, clock, skew, issued, leases>>

\* The store executes the delete, or reports an error; Release returns.
ReleaseDelete(a) ==
  /\ pc[a] = "rel_delete"
  /\ \/ /\ UNCHANGED table
        /\ Return(a, "Release", Receiver(a), ReleaseResult(StoreErr, 0))
     \/ /\ table' = ExecDelete(table, args[a].name, args[a].key)
        /\ Return(a, "Release", Receiver(a),
                  ReleaseResult(NilErr, Cardinality(table \ table')))
  /\ UNCHANGED <<clock, skew, calls, issued, leases>>

(***************************************************************************)
(* Lease.Context                                                           *)
(***************************************************************************)
\* What a context answers to Deadline(): none, or the deadline d.
NoDeadline == [ok |-> FALSE, deadline |-> 0]
Deadline(d) == [ok |-> TRUE, deadline |-> d]

\* The contexts a caller may pass as the parent.
Parents == {NoDeadline} \cup {Deadline(d) : d \in Exps}

\* context.WithDeadline(parent, d), as the deadline of the child it returns:
\* a child never outlives its parent, so a parent whose own deadline is
\* before d keeps that deadline in the child.
WithDeadline(parent, d) ==
  IF parent.ok /\ parent.deadline < d THEN parent ELSE Deadline(d)

\* What l.Context(parent) returns: the handle it was called on, the parent it
\* was given and the child.
ContextRet(l, parent, child) ==
  [op |-> "Context", err |-> NilErr, lease |-> l, now |-> 0,
   parent |-> parent, child |-> child]

\* l.Context(parent) is called on a handle l and returns; it makes no call
\* to the store.
Context(a, l, parent) ==
  /\ l \in leases
  /\ pc[a] = "idle"
  /\ calls < MaxCalls
  /\ calls' = calls + 1
  /\ ret' = [ret EXCEPT ![a] = ContextRet(l, parent, WithDeadline(parent, l.Exp))]
  /\ UNCHANGED <<table, clock, skew, issued, leases, pc, args>>

(***************************************************************************)
(* Environment.                                                            *)
(***************************************************************************)
\* Real time passes.
Tick ==
  /\ clock < MaxTime
  /\ clock' = clock + 1
  /\ UNCHANGED <<table, skew, calls, issued, leases, pc, args, ret>>

Next ==
  \/ \E a \in Actors, name \in Names, exp \in Exps : AcquireCall(a, name, exp)
  \/ \E a \in Actors : AcquireSweep(a)
  \/ \E a \in Actors : AcquireKey(a)
  \/ \E a \in Actors : AcquireInsert(a)
  \/ \E a \in Actors, l \in leases, exp \in Exps : RenewCall(a, l, exp)
  \/ \E a \in Actors : RenewUpdate(a)
  \/ \E a \in Actors, l \in leases : ReleaseCall(a, l)
  \/ \E a \in Actors : ReleaseDelete(a)
  \/ \E a \in Actors, l \in leases, parent \in Parents : Context(a, l, parent)
  \/ Tick

Spec == Init /\ [][Next]_vars

\* The program with every actor reading the one clock: no actor's time.Now()
\* is ahead of real time.
InitOneClock == Init /\ skew = [a \in Actors |-> 0]
SpecOneClock == InitOneClock /\ [][Next]_vars

(***************************************************************************)
(* Steps of the calls, as seen in a pair of states.                        *)
(***************************************************************************)
\* The store executes a's sweep.
SweepDone(a) == pc[a] = "acq_sweep" /\ pc'[a] = "acq_key"
\* The store answers a's insert and Acquire returns.
InsertStep(a) == pc[a] = "acq_insert" /\ pc'[a] = "idle"
\* The store answers a's update and Renew returns.
UpdateStep(a) == pc[a] = "ren_update" /\ pc'[a] = "idle"
\* The store answers a's delete and Release returns.
DeleteStep(a) == pc[a] = "rel_delete" /\ pc'[a] = "idle"
\* Context is called by a and returns (the only call that takes one step).
ContextStep(a) ==
  /\ pc' = pc
  /\ calls' = calls + 1
  /\ ret'[a].op = "Context"
  /\ \A b \in Actors \ {a} : ret'[b] = ret[b]

\* The error a call returns when the store itself reported an error.
IsStoreErr(err) == err # NilErr /\ err[Len(err)] = StoreErr[1]

\* The rows of table t for a name, and for a handle (its name and key).
RowsOf(t, name) == {r \in t : r.name = name}
RowsFor(t, l) == {r \in t : r.name = l.Name /\ r.key = l.Key}

(***************************************************************************)
(* C1.  Mutual exclusion.  The table never holds two rows of one name.  An *)
(* insert the store executes succeeds exactly if the table holds no row of *)
(* that name at that moment, and then adds its row; otherwise Acquire      *)
(* returns a non-nil error and the table is as before.  So of two Acquire  *)
(* calls of one name whose sweeps have both been executed, the first       *)
(* insert to execute succeeds and the second fails while that row is there.*)
(***************************************************************************)
UniqueNames == \A r1, r2 \in table : r1.name = r2.name => r1 = r2

C1_InsertExcludes ==
  \A a \in Actors :
    InsertStep(a) =>
      LET held == RowsOf(table, args[a].name) # {}
          mine == Row(args[a].name, args[a].exp, args[a].key)
      IN  /\ held => ret'[a].err # NilErr /\ table' = table
          /\ ret'[a].err = NilErr => ~held /\ table' = table \cup {mine}
          /\ ~held /\ ~IsStoreErr(ret'[a].err) => ret'[a].err = NilErr
          /\ \A b \in Actors \ {a} :
               (pc[b] = "acq_insert" /\ args[b].name = args[a].name /\ ret'[a].err = NilErr)
                 => RowsOf(table', args[b].name) = {mine}

C1_MutualExclusion == [](UniqueNames) /\ [][C1_InsertExcludes]_vars

\* Two Acquire calls of one name overlapped (the loser drew its key, hence
\* ran its sweep, before the winner drew its key and inserted); the winner's
\* row is in the table and the loser returned the insert's error.
C1_Witness ==
  \E a, b \in Actors :
    /\ a # b
    /\ ret[a].op = "Acquire" /\ ret[a].err = NilErr
    /\ ret[b].op = "Acquire" /\ ret[b].err = Wrap(UniqueErr, "inserting into database")
    /\ ret[a].lease.Name = ret[b].lease.Name
    /\ ret[b].lease.Key = EncodeToString(RandomBytes(1))
    /\ ret[a].lease.Key = EncodeToString(RandomBytes(2))
    /\ RowsOf(table, ret[a].lease.Name) = RowsFor(table, ret[a].lease)
    /\ RowsFor(table, ret[a].lease) # {}

(***************************************************************************)
(* C2.  Renew.  When the store executes the update and reports the rows    *)
(* affected, Renew returns nil exactly if a row with the handle's name and *)
(* key and exp > now (the call's time argument) exists, and that row's exp *)
(* becomes the new expiration; otherwise Renew returns "could not renew"   *)
(* and the table is unchanged.                                             *)
(***************************************************************************)
C2_RenewStep ==
  \A a \in Actors :
    (UpdateStep(a) /\ ~IsStoreErr(ret'[a].err)) =>
      LET Match(r) == r.name = args[a].name /\ r.key = args[a].key /\ r.exp > args[a].now
          match == \E r \in table : Match(r)
      IN  /\ ret'[a].err = NilErr <=> match
          /\ match => table' = {IF Match(r) THEN [r EXCEPT !.exp = args[a].exp] ELSE r : r \in table}
          /\ ~match => ret'[a].err = RenewRefused /\ table' = table

C2_RenewIffHeldUnexpired == [][C2_RenewStep]_vars

\* A Renew has returned nil and the stored expiration is the renewed one, no
\* longer the one of the handle.
C2_Witness ==
  \E a \in Actors :
    /\ ret[a].op = "Renew" /\ ret[a].err = NilErr
    /\ \E r \in RowsFor(table, ret[a].lease) : r.exp # ret[a].lease.Exp

(***************************************************************************)
(* C3.  Release is idempotent.  Whenever the store executes the delete,    *)
(* Release returns nil, whether a row was deleted or none; afterwards no   *)
(* row with the handle's name and key exists, every other row is kept, and *)
(* a Release that finds no such row leaves the table unchanged.            *)
(***************************************************************************)
C3_ReleaseStep ==
  \A a \in Actors :
    (DeleteStep(a) /\ ~IsStoreErr(ret'[a].err)) =>
      LET l == Receiver(a)
      IN  /\ ret'[a].err = NilErr
          /\ RowsFor(table', l) = {}
          /\ table' = table \ RowsFor(table, l)
          /\ RowsFor(table, l) = {} => table' = table

C3_ReleaseIdempotent == [][C3_ReleaseStep]_vars

\* Two Releases of one handle have both returned nil (the second one, at
\* least, deleted no row), and the row is absent.
C3_Witness ==
  \E a, b \in Actors :
    /\ a # b
    /\ ret[a].op = "Release" /\ ret[a].err = NilErr
    /\ ret[b].op = "Release" /\ ret[b].err = NilErr
    /\ ret[a].lease = ret[b].lease
    /\ RowsFor(table, ret[a].lease) = {}

(***************************************************************************)
(* C4.  Acquire of a name with no unexpired row.  As claimed: when every   *)
(* row of the name is expired at the call's time (exp not after now), no   *)
(* other actor has made any call and the store reports no error, Acquire   *)
(* returns nil, its row is in the table and the handle carries the name,   *)
(* the expiration and the stored 32-hex-character key.                     *)
(***************************************************************************)
HexChars == {HexDigits[i] : i \in 1..Len(HexDigits)}
IsHexKey(k) == Len(k) = 2 * KeySize /\ \A i \in 1..Len(k) : k[i] \in HexChars

\* No actor other than a has made a call yet.
Alone(a) == \A b \in Actors \ {a} : pc[b] = "idle" /\ ret[b] = NoRet

C4_AcquireStep ==
  \A a \in Actors :
    ( /\ InsertStep(a)
      /\ Alone(a)
      /\ ~IsStoreErr(ret'[a].err)
      /\ \A r \in RowsOf(table, args[a].name) : r.exp <= args[a].now )
    => /\ ret'[a].err = NilErr
       /\ Row(args[a].name, args[a].exp, args[a].key) \in table'
       /\ ret'[a].lease = Lease(args[a].name, args[a].exp, args[a].key)
       /\ IsHexKey(ret'[a].lease.Key)

C4_AcquireWhenNoUnexpiredRow == [][C4_AcquireStep]_vars

(***************************************************************************)
(* C5.  Stale reclamation is global.  Immediately after the store executes *)
(* the sweep of an Acquire with time argument now, the table holds no row, *)
(* of whatever name, with exp < now, and every row with exp >= now is      *)
(* still there; the insert of that Acquire, failing or not, removes no row *)
(* and brings none back.                                                   *)
(***************************************************************************)
C5_SweepStep ==
  \A a \in Actors :
    /\ SweepDone(a) =>
         /\ \A r \in table' : ~(r.exp < args[a].now)
         /\ \A r \in table : r.exp >= args[a].now => r \in table'
         /\ table' \subseteq table
    /\ InsertStep(a) =>
         /\ table \subseteq table'
         /\ ret'[a].err # NilErr => table' = table

C5_SweepIsGlobal == [][C5_SweepStep]_vars

\* All three calls were Acquires: b's row of another name, inserted with an
\* expiration in the past, is gone, and a's Acquire came back with the
\* insert's error.
C5_Witness ==
  \E a, b \in Actors :
    /\ a # b
    /\ calls = 3 /\ issued = 3
    /\ ret[a].op = "Acquire" /\ ret[a].err = Wrap(UniqueErr, "inserting into database")
    /\ ret[b].op = "Acquire" /\ ret[b].err = NilErr
    /\ ret[b].lease.Name # ret[a].lease.Name
    /\ RowsFor(table, ret[b].lease) = {}

(***************************************************************************)
(* C6.  The handle Acquire returns.  As claimed: every return of Acquire   *)
(* carries a populated handle.  As the code has it: a return that follows  *)
(* the insert carries the populated handle (Name, Exp and the 32-hex Key   *)
(* of the call) whether the insert failed or not, while a return on a      *)
(* failed sweep or a failed key generation carries a nil handle and a      *)
(* non-nil error.                                                          *)
(***************************************************************************)
C6_HandleOnEveryReturn ==
  \A a \in Actors : ret[a].op = "Acquire" => ret[a].lease # NilLease

C6_ReturnStep ==
  \A a \in Actors :
    /\ InsertStep(a) =>
         /\ ret'[a].lease = Lease(args[a].name, args[a].exp, args[a].key)
         /\ ret'[a].lease # NilLease
         /\ IsHexKey(ret'[a].lease.Key)
    /\ (pc[a] \in {"acq_sweep", "acq_key"} /\ pc'[a] = "idle") =>
         /\ ret'[a].lease = NilLease
         /\ ret'[a].err # NilErr

C6_HandleOnceInsertWasSent == [][C6_ReturnStep]_vars

\* An Acquire has returned a non-nil error together with a populated handle.
C6_Witness ==
  \E a \in Actors :
    /\ ret[a].op = "Acquire" /\ ret[a].err # NilErr
    /\ ret[a].lease # NilLease
    /\ ret[a].lease.Name \in Names /\ IsHexKey(ret[a].lease.Key)

(***************************************************************************)
(* C7.  Scenario B.  A second Acquire of a name whose row is not expired   *)
(* at the second call's time leaves that row as it is: its sweep keeps the *)
(* row, and its insert, finding the row, fails with a non-nil error and    *)
(* changes nothing, the row keeping its name, exp and key.                 *)
(***************************************************************************)
C7_SecondAcquireStep ==
  \A a \in Actors :
    /\ SweepDone(a) =>
         \A r \in RowsOf(table, args[a].name) :
           r.exp >= args[a].now => RowsOf(table', args[a].name) = {r}
    /\ (InsertStep(a) /\ RowsOf(table, args[a].name) # {}) =>
         /\ ret'[a].err # NilErr
         /\ RowsOf(table', args[a].name) = RowsOf(table, args[a].name)
         /\ \A r \in table' : r.key # args[a].key

C7_SecondAcquireLeavesRow == [][C7_SecondAcquireStep]_vars

\* A second Acquire of a held name has failed on the unique index, and the
\* first lease's row is in the table just as it was acquired.
C7_Witness ==
  \E a \in Actors, l \in leases :
    /\ ret[a].op = "Acquire"
    /\ ret[a].err = Wrap(UniqueErr, "inserting into database")
    /\ l.Name = ret[a].lease.Name /\ l.Key # ret[a].lease.Key
    /\ RowsOf(table, l.Name) = {Row(l.Name, l.Exp, l.Key)}

(***************************************************************************)
(* C8.  Scenario A.  Renewability follows the stored expiration, not the   *)
(* one the handle was acquired with.  Once a Renew has stored e2 later     *)
(* than the handle's e1, a Renew on that handle whose time argument now    *)
(* has e1 <= now < e2 returns nil and stores its new expiration, and one   *)
(* with now >= e2 returns "could not renew" and changes nothing (the store *)
(* reporting no error, the row not having been removed).                   *)
(***************************************************************************)
C8_RenewStep ==
  \A a \in Actors :
    (UpdateStep(a) /\ ~IsStoreErr(ret'[a].err)) =>
      LET l == Receiver(a)
          now == args[a].now
      IN  \A r \in RowsFor(table, l) :
            r.exp > l.Exp =>
              /\ (l.Exp <= now /\ now < r.exp) =>
                   /\ ret'[a].err = NilErr
                   /\ RowsFor(table', l) = {Row(l.Name, args[a].exp, l.Key)}
              /\ now >= r.exp =>
                   /\ ret'[a].err = RenewRefused
                   /\ table' = table

C8_RenewFollowsStoredExp == [][C8_RenewStep]_vars

\* A Renew has returned nil although its time argument was not before the
\* expiration the handle was acquired with.
C8_Witness ==
  \E a \in Actors :
    /\ ret[a].op = "Renew" /\ ret[a].err = NilErr
    /\ ret[a].now >= ret[a].lease.Exp
    /\ RowsFor(table, ret[a].lease) # {}

(***************************************************************************)
(* C9.  Scenario C.  Acquire does not compare exp with now: an insert the  *)
(* store executes for a name without a row succeeds and adds the row, also *)
(* when exp is already before the call's time.  The sweep of a later       *)
(* Acquire, of whatever name, deletes that expired row before its own      *)
(* insert is sent, after which an Acquire of the first name succeeds.      *)
(***************************************************************************)
C9_ScenarioStep ==
  \A a \in Actors :
    /\ (InsertStep(a) /\ RowsOf(table, args[a].name) = {} /\ ~IsStoreErr(ret'[a].err)) =>
         /\ ret'[a].err = NilErr
         /\ Row(args[a].name, args[a].exp, args[a].key) \in table'
    /\ (InsertStep(a) /\ ret'[a].err = NilErr /\ args[a].exp < args[a].now) =>
         \E r \in table' : r.name = args[a].name /\ r.exp < args[a].now
    /\ SweepDone(a) =>
         /\ \A r \in table : (r.exp < args[a].now /\ r.name # args[a].name) => r \notin table'
         /\ pc'[a] # "idle" /\ args'[a].key = << >>

C9_ExpiredRowIsReclaimed == [][C9_ScenarioStep]_vars

\* The three Acquires of the scenario: a's Acquire of a name with an
\* expiration before its own time returned nil; b then acquired another
\* name, whose row is there, and the first name again, whose new row is
\* there while a's row is gone.
C9_Witness ==
  \E a, b \in Actors, m \in leases :
    /\ a # b
    /\ calls = 3 /\ issued = 3
    /\ ret[a].op = "Acquire" /\ ret[a].err = NilErr
    /\ ret[a].lease.Exp < ret[a].now
    /\ ret[a].lease.Key = EncodeToString(RandomBytes(1))
    /\ m.Name # ret[a].lease.Name
    /\ m.Key = EncodeToString(RandomBytes(2))
    /\ RowsFor(table, m) # {}
    /\ ret[b].op = "Acquire" /\ ret[b].err = NilErr
    /\ ret[b].lease.Name = ret[a].lease.Name
    /\ ret[b].lease.Key = EncodeToString(RandomBytes(3))
    /\ RowsFor(table, ret[a].lease) = {}
    /\ RowsFor(table, ret[b].lease) # {}

(***************************************************************************)
(* C10.  Expired and Released are terminal.  As claimed: the row of a      *)
(* handle that is absent from the table (released, swept, or never         *)
(* inserted) never comes back, a new Acquire of the name storing another   *)
(* key; Renew creates no row and fails on a handle without a row; and once *)
(* a Renew on a handle has returned "could not renew", no Renew on that    *)
(* handle returns nil any more.                                            *)
(***************************************************************************)
Keys(t) == {r.key : r \in t}

C10_RowStaysAbsent ==
  /\ \A l \in leases : RowsFor(table, l) = {} => RowsFor(table', l) = {}
  /\ \A b \in Actors :
       UpdateStep(b) =>
         /\ Keys(table') = Keys(table)
         /\ RowsFor(table, Receiver(b)) = {} => ret'[b].err # NilErr

C10_RefusalIsFinal ==
  \A a, b \in Actors :
    ( /\ ret[a].op = "Renew" /\ ret[a].err = RenewRefused
      /\ UpdateStep(b)
      /\ Receiver(b) = ret[a].lease )
    => ret'[b].err # NilErr

C10_ExpiredAndReleasedAreTerminal == [][C10_RowStaysAbsent /\ C10_RefusalIsFinal]_vars


(***************************************************************************)
(* C11.  The store's clock alone decides expiry: the time a sweep or a     *)
(* Renew's guard compares exp with is the store's time, whatever the local *)
(* clock of the actor that called, so a sweep never deletes a row that is  *)
(* unexpired by the store's clock (exp not before it), and an update       *)
(* changes a row exactly if the store's clock is before the row's exp.     *)
(***************************************************************************)
C11_StoreClockStep ==
  \A a \in Actors :
    /\ SweepDone(a) => \A r \in table : r.exp >= clock => r \in table'
    /\ (UpdateStep(a) /\ ret'[a].err = NilErr) =>
         \E r \in RowsFor(table, Receiver(a)) : r.exp > clock

C11_StoreClockDecidesExpiry == [][C11_StoreClockStep]_vars


(***************************************************************************)
(* C12.  Context makes no call to the store and leaves the table as it     *)
(* was, and whatever parent it is given, the child it returns has a        *)
(* deadline, which is the Exp of the handle.                               *)
(***************************************************************************)
C12_ContextStep ==
  \A a \in Actors :
    ContextStep(a) =>
      /\ table' = table
      /\ ret'[a].child = Deadline(ret'[a].lease.Exp)

C12_ContextDeadlineIsExp == [][C12_ContextStep]_vars


(***************************************************************************)
(* C13.  A successful Renew leaves the lease active: whenever Renew with a *)
(* new expiration returns nil, the row is there with that expiration and   *)
(* is unexpired at that moment, that is, not eligible for a sweep and      *)
(* renewable again at the time the call read.                              *)
(***************************************************************************)
\* Whether, in table t at time now, the row of handle l would be hit by an
\* update, and whether a sweep would delete it.
C13_Renewable(t, l, now) == ExecUpdate(t, 0, l.Name, l.Key, now).aff = 1
C13_Sweepable(t, l, now) == RowsFor(ExecSweep(t, now), l) # RowsFor(t, l)

C13_ActiveStep ==
  \A a \in Actors :
    (UpdateStep(a) /\ ret'[a].err = NilErr) =>
      /\ RowsFor(table', Receiver(a)) = {Row(args[a].name, args[a].exp, args[a].key)}
      /\ C13_Renewable(table', Receiver(a), args[a].now)
      /\ ~C13_Sweepable(table', Receiver(a), args[a].now)

C13_RenewedIsActive == [][C13_ActiveStep]_vars

\* C13, as the code has it: Renew does not compare the new expiration with
\* the time.  Whenever Renew returns nil, the row is there with the new
\* expiration; it is renewable again at the time the call read exactly if
\* the new expiration is after that time, and eligible for a sweep exactly
\* if the new expiration is before it.
C13_StoredStep ==
  \A a \in Actors :
    (UpdateStep(a) /\ ret'[a].err = NilErr) =>
      /\ RowsFor(table', Receiver(a)) = {Row(args[a].name, args[a].exp, args[a].key)}
      /\ C13_Renewable(table', Receiver(a), args[a].now) <=> args[a].exp > args[a].now
      /\ C13_Sweepable(table', Receiver(a), args[a].now) <=> args[a].exp < args[a].now

C13_RenewStoresNewExp == [][C13_StoredStep]_vars

\* A Renew has returned nil and left the row expired at the time it read.
C13_Witness ==
  \E a \in Actors :
    /\ calls = 2
    /\ ret[a].op = "Renew" /\ ret[a].err = NilErr
    /\ \E r \in RowsFor(table, ret[a].lease) : r.exp <= ret[a].now


(***************************************************************************)
(* C14.  Acquire sends the sweep, then the insert.  An Acquire gets to its *)
(* key and its insert only through a sweep the store has executed.  When   *)
(* the store fails the sweep, Acquire returns at once: no key is drawn and *)
(* no insert sent, the table is as it was, no handle comes into being, and *)
(* the call returns a nil handle with the non-nil error of the sweep.      *)
(***************************************************************************)
\* Acquire returns from its sweep.
C14_SweepFailed(a) == pc[a] = "acq_sweep" /\ pc'[a] = "idle"

C14_AcquireStep ==
  \A a \in Actors :
    /\ C14_SweepFailed(a) =>
         /\ table' = table
         /\ issued' = issued /\ leases' = leases
         /\ ret'[a].op = "Acquire" /\ ret'[a].lease = NilLease
         /\ ret'[a].err # NilErr
         /\ ret'[a].err = Wrap(StoreErr, "deleting stale leases")
    /\ (pc'[a] = "acq_key" /\ pc[a] # "acq_key") =>
         /\ pc[a] = "acq_sweep"
         /\ table' = ExecSweep(table, args[a].now)
    /\ (pc'[a] = "acq_insert" /\ pc[a] # "acq_insert") => pc[a] = "acq_key"
    /\ InsertStep(a) => IsHexKey(args[a].key)
    /\ (\E r \in table' \ table : r.key \notin Keys(table)) => \E b \in Actors : InsertStep(b)

C14_SweepThenInsert == [][C14_AcquireStep]_vars

\* An Acquire has returned the sweep's error and an expired row, which its
\* sweep would have deleted, is still there.
C14_Witness ==
  \E a \in Actors :
    /\ ret[a].op = "Acquire" /\ ret[a].lease = NilLease
    /\ ret[a].err = Wrap(StoreErr, "deleting stale leases")
    /\ \E r \in table : r.exp < ret[a].now


(***************************************************************************)
(* C15.  No lease is stolen while unexpired.  With all actors reading one  *)
(* clock, and each call reading the time before its statement executes, a  *)
(* row whose exp is not before the current time keeps its name and key in  *)
(* every step, except a step in which the store executes the delete of a   *)
(* Release that carries the row's name and key.                            *)
(***************************************************************************)
C15_Step ==
  \A r \in table :
    r.exp >= clock =>
      \/ \E q \in table' : q.name = r.name /\ q.key = r.key
      \/ \E a \in Actors :
           DeleteStep(a) /\ args[a].name = r.name /\ args[a].key = r.key

C15_NoTheftWhileUnexpired == [][C15_Step]_vars

\* At time 1 the store has executed the sweep of an Acquire of a name whose
\* row, held by another handle, is not expired, and has deleted an expired
\* row; the unexpired row is there.
C15_Witness ==
  \E a \in Actors, l, m \in leases :
    /\ clock = 1 /\ calls = 3
    /\ pc[a] = "acq_key" /\ args[a].now = 1 /\ args[a].name = l.Name
    /\ l.Exp >= clock /\ Row(l.Name, l.Exp, l.Key) \in table
    /\ m.Exp < clock /\ RowsOf(table, m.Name) = {}


(***************************************************************************)
(* C16.  The key is a capability.  Handles that differ have different      *)
(* keys.  When the row of a handle's name carries another key, an update   *)
(* and a delete made through that handle leave the table as it was; Renew, *)
(* unless the store reports an error, returns the renew-refused error, and *)
(* Release, unless the store reports an error, returns nil.                *)
(***************************************************************************)
C16_DistinctKeys == \A l, m \in leases : l # m => l.Key # m.Key

\* The row of the name of a's call carries a key other than the call's.
C16_HeldByAnother(a) == \E r \in RowsOf(table, args[a].name) : r.key # args[a].key

C16_Step ==
  \A a \in Actors :
    /\ (UpdateStep(a) /\ C16_HeldByAnother(a)) =>
         /\ table' = table
         /\ ret'[a].err # NilErr
         /\ ~IsStoreErr(ret'[a].err) => ret'[a].err = RenewRefused
    /\ (DeleteStep(a) /\ C16_HeldByAnother(a)) =>
         /\ table' = table
         /\ ~IsStoreErr(ret'[a].err) => ret'[a].err = NilErr

C16_KeyIsCapability == [](C16_DistinctKeys) /\ [][C16_Step]_vars

\* A Renew through a handle that, by the time the call read, was not
\* expired has been refused, and the row of its name, which another Acquire
\* has inserted with its own key, is as that Acquire wrote it.
C16_Witness ==
  \E a, b \in Actors :
    /\ a # b
    /\ ret[a].op = "Renew" /\ ret[a].err = RenewRefused
    /\ ret[a].now < ret[a].lease.Exp
    /\ ret[b].op = "Acquire" /\ ret[b].err = NilErr
    /\ ret[b].lease.Name = ret[a].lease.Name
    /\ ret[b].lease.Key # ret[a].lease.Key
    /\ Row(ret[b].lease.Name, ret[b].lease.Exp, ret[b].lease.Key) \in table


(***************************************************************************)
(* C17.  Renew and Release never modify the handle.  The handles are the   *)
(* values Acquire returned: only the return of an Acquire's insert adds    *)
(* one, and no step changes or removes one; a Renew or a Release returns   *)
(* with the handle it was called on as it was.  After a Renew that returns *)
(* nil the row carries the new expiration, whatever the handle's Exp.  A   *)
(* Context derived from a handle takes its deadline from the handle's Exp, *)
(* whatever the stored exp: the child's deadline is never after that Exp,  *)
(* and is that Exp when the parent has no deadline before it.              *)
(***************************************************************************)
C17_FrameStep ==
  /\ leases \subseteq leases'
  /\ leases' # leases => \E a \in Actors : InsertStep(a) /\ ret'[a].lease \in leases'
  /\ \A a \in Actors :
       /\ (UpdateStep(a) \/ DeleteStep(a)) =>
            /\ leases' = leases
            /\ ret'[a].lease = Receiver(a)
            /\ ret'[a].lease \in leases'
       /\ (UpdateStep(a) /\ ret'[a].err = NilErr) =>
            RowsFor(table', ret'[a].lease) =
              {Row(ret'[a].lease.Name, args[a].exp, ret'[a].lease.Key)}
       /\ ContextStep(a) =>
            /\ ret'[a].lease \in leases
            /\ ret'[a].child.ok
            /\ ret'[a].child.deadline <= ret'[a].lease.Exp
            /\ ~(ret'[a].parent.ok /\ ret'[a].parent.deadline < ret'[a].lease.Exp)
                 => ret'[a].child = Deadline(ret'[a].lease.Exp)

C18_Racing(a, b) ==
  /\ a # b
  /\ pc[a] = "ren_update" /\ pc[b] = "rel_delete"
  /\ args[a].name = args[b].name /\ args[a].key = args[b].key
  /\ \E r \in RowsFor(table, Receiver(a)) : r.exp > args[a].now

C18_Step ==
  /\ \A a, b \in Actors :
       C18_Racing(a, b) =>
         /\ (UpdateStep(a) /\ ~IsStoreErr(ret'[a].err)) =>
              /\ ret'[a].err = NilErr
              /\ RowsFor(table', Receiver(a)) # {}
              /\ pc'[b] = "rel_delete"
         /\ (DeleteStep(b) /\ ~IsStoreErr(ret'[b].err)) =>
              /\ ret'[b].err = NilErr
              /\ RowsFor(table', Receiver(b)) = {}
              /\ pc'[a] = "ren_update"
  /\ \A a \in Actors :
       /\ (DeleteStep(a) /\ ~IsStoreErr(ret'[a].err)) =>
            /\ ret'[a].err = NilErr
            /\ RowsFor(table', Receiver(a)) = {}
       /\ (UpdateStep(a) /\ RowsFor(table, Receiver(a)) = {}) =>
            /\ table' = table
            /\ ~IsStoreErr(ret'[a].err) => ret'[a].err = RenewRefused
  /\ \A l \in leases : RowsFor(table, l) = {} => RowsFor(table', l) = {}
  /\ \A n \in Names :
       (RowsOf(table, n) = {} /\ RowsOf(table', n) # {}) =>
         \E c \in Actors :
           /\ InsertStep(c) /\ args[c].name = n
           /\ RowsOf(table', n) = {Row(n, args[c].exp, args[c].key)}

C18_StoreOrderArbitrates == [][C18_Step]_vars

\* Of three calls, an Acquire, a Renew and a Release through copies of its
\* handle, the update was executed first: both calls have returned nil, the
\* Renew on a row unexpired at the time it read, and the row is absent.
C18_Witness ==
  \E a, b \in Actors :
    /\ a # b
    /\ calls = 3
    /\ ret[a].op = "Renew" /\ ret[a].err = NilErr
    /\ ret[b].op = "Release" /\ ret[b].err = NilErr
    /\ ret[a].lease = ret[b].lease
    /\ ret[a].now < ret[a].lease.Exp
    /\ RowsOf(table, ret[a].lease.Name) = {}

====
